---- MODULE Spec2Model ----
(***************************************************************************)
(* Model of node-firebridge's data-access core: FirebirdConnectionManager  *)
(* (database/connection.ts) on top of the node-firebird connection pool,   *)
(* with the transaction route and CrudService that call it.                *)
(*                                                                         *)
(* One "call" is one invocation of executeQuery, executeCommand or         *)
(* executeTransaction.  Every await, driver callback and timer is one      *)
(* step; the code between two of them runs atomically (single-threaded     *)
(* event loop).                                                            *)
(*                                                                         *)
(* The driver is the environment.  Its pool serves queued get()s in FIFO   *)
(* order while fewer than max connections are out, reusing a free          *)
(* connection before attaching a new one; detach() of a pooled connection  *)
(* puts it back on the free list, at once or, when a statement is still    *)
(* in flight on it, possibly only after that statement has completed.      *)
(* Statement, begin, commit and rollback callbacks arrive asynchronously   *)
(* and may carry an error.                                                 *)
(***************************************************************************)
EXTENDS Integers, Sequences, FiniteSets, TLC

\* ---- bounds of the model ----
NumCalls == 2          \* calls made by the clients
MaxOperations == 2     \* longest operations list of a transaction
MaxSubmissions == 2    \* requests to POST /api/async-query
MaxSqlLen == 3         \* longest enumerated SQL string, in tokens
MaxPage == 3           \* largest page number tried
MaxOffset == 2         \* largest explicit offset tried
MaxRows == 2           \* keys the table can hold
MaxRequests == 2       \* concurrent requests to the by-id routes
MaxSyncCallbacks == 1   \* statement callbacks the driver makes inside one transaction.query
MaxKeys == 2           \* keys of a data mapping
MaxExtraParams == 2    \* parameters of an update's predicate
PoolMax == 1           \* config.pool.max (POOL_MAX) of the modelled deployment

Calls == 1..NumCalls
Kinds == {"query", "command", "transaction"}
\* validationSchemas.transaction / TransactionOperation.isolation; "absent"
\* is a request body without the field
Isolations == {"READ_COMMITTED", "SNAPSHOT", "SNAPSHOT_TABLE_STABILITY"}
RequestIsolations == Isolations \cup {"absent"}

VARIABLES
    \* FirebirdConnectionManager
    pool,           \* this.pool: "pool" or "null"
    isConnected,    \* this.isConnected
    \* node-firebird pool behind this.pool
    dbinuse,        \* connections the pool counts as handed out
    pooldb,         \* free connections, in the order they were returned
    pending,        \* queued pool.get callbacks (call ids), FIFO
    attached,       \* number of connections the pool has attached so far
    \* one call
    kind,           \* which entry point the call is
    pc,             \* where the call is
    db,             \* the connection handed to the call (0: none)
    finished,       \* the `finished` flag of executeQuery / executeCommand
    timeoutId,      \* TRUE while the timer is armed
    detached,       \* number of db.detach() calls the call has made
    deferred,       \* the driver postponed the detach behind the in-flight statement
    outcome,        \* how the returned promise settled ("none": not yet)
    settles,        \* number of resolve/reject calls that settled or tried to
    \* executeTransaction
    operations,     \* length of the operations list
    missing,        \* positions (1-based) of the list that hold no operation
    isolation,      \* isolation asked for in the request body
    isolationLevel, \* level db.transaction was started with ("none": not started)
    reported,       \* isolation of the route's response ("none": no response)
    operationIndex, \* executeNext's index, 0-based as in the code
    results,        \* the results array
    inflight,       \* operations (1-based) whose driver callback is outstanding
    submitted,      \* operations in the order transaction.query was called
    commits,        \* number of transaction.commit calls
    rollbacks,      \* number of transaction.rollback calls
    failedOperation,\* first operation the driver failed (0: none)
    cause,          \* operation whose driver error the rejection wraps (0: none)
    returned,       \* what the promise resolved with (<<>> until then)
    \* the database
    store,          \* committed effects <<call, operation>>
    uncommitted,    \* effects of the open transaction of each call
    \* utils/jobManager and the async-query route
    jobs,           \* the jobs record: request id -> job
    task,           \* where each async submission is
    taskId,         \* the X-Request-ID header of each submission
    created,        \* the submission that last called createJob for an id (0: none)
    observed,       \* what getJob last returned for an id, through the job routes
    \* middleware/validation: validateSqlQuery
    sql,            \* the string validateSqlQuery is given (a sequence of tokens)
    verdict,        \* "none", or how validateSqlQuery ended
    \* routes that take SQL from the request body
    route,          \* the route of the request in hand, "none" between requests
    body,           \* the SQL strings of its body, in order
    hasRequestId,   \* whether it carries an X-Request-ID header
    status,         \* "idle", "received", "background", "400" or "200"
    reached,        \* the SQL strings handed to executeQuery/Command/Transaction
    \* pagination
    pagination,     \* the page, limit and offset given, each <<>> when absent
    appliedBy,      \* "none", or the function that was applied to them
    window,         \* the ROWS clause it built, <<>> for none
    normalized,     \* what normalizePagination returned
    \* CrudService over one table
    table,          \* the rows of the table: records with an id and a name
    last,           \* the last CrudService call and what it returned
    prev,           \* the call before it
    \* routes/crud.ts: PUT and DELETE /api/crud/:table/:id on one table
    primaryKey,     \* the table's primary key column: "ID", "CODE", or "" for none
    listed,         \* whether getTables lists the table
    records,        \* the rows of the table: records with an ID and a CODE
    req,            \* the requests: method, id, position in the handler, response
    \* CrudService.update and POST /api/transaction/batch-update
    data,           \* the data mapping: <<key, value>> pairs in Object.keys order
    extraParams,    \* the parameters of the predicate
    builtBy,        \* "none", or the builder that was applied to them
    statement,      \* the statement it built: SET clause and parameters
    \* the application's middleware chain in front of POST /api/async-query
    sent            \* the X-Request-ID each client sent ("": none), "unsent" before

poolVars == <<dbinuse, pooldb, pending, attached>>
callVars == <<kind, pc, db, finished, timeoutId, detached, deferred, outcome, settles>>
txVars == <<operations, missing, isolation, isolationLevel, reported, operationIndex,
            results, inflight, submitted, commits, rollbacks, failedOperation,
            cause, returned>>
dbVars == <<store, uncommitted>>
managerVars == <<pool, isConnected>>
connectionVars == <<managerVars, poolVars, callVars, txVars, dbVars>>
jobVars == <<jobs, task, taskId, created, observed>>
\* the state outside the connection manager
guardVars == <<sql, verdict>>
rawVars == <<route, body, hasRequestId, status, reached>>
pageVars == <<pagination, appliedBy, window, normalized>>
crudVars == <<table, last, prev>>
byIdVars == <<primaryKey, listed, records, req>>
updateVars == <<data, extraParams, builtBy, statement>>
chainVars == <<sent>>
routeVars == <<byIdVars, updateVars, chainVars>>
serviceVars == <<jobVars, guardVars, rawVars, pageVars, crudVars, routeVars>>
vars == <<connectionVars, serviceVars>>

Range(s) == {s[k] : k \in 1..Len(s)}

\* what the driver hands to the callback of operation k of call i
DriverResult(i, k) == <<"row", i, k>>

TypeOK ==
    /\ pool \in {"pool", "null"} /\ isConnected \in BOOLEAN
    /\ dbinuse \in Int /\ attached \in Nat
    /\ pooldb \in Seq(Nat) /\ pending \in Seq(Calls)
    /\ kind \in [Calls -> Kinds \cup {"none"}]
    /\ pc \in [Calls -> {"idle", "waiting", "running", "abandoned", "beginning",
                         "executing", "rollingback", "committing", "closed"}]
    /\ db \in [Calls -> Nat]
    /\ finished \in [Calls -> BOOLEAN] /\ timeoutId \in [Calls -> BOOLEAN]
    /\ deferred \in [Calls -> BOOLEAN]
    /\ detached \in [Calls -> Nat] /\ settles \in [Calls -> Nat]
    /\ outcome \in [Calls -> {"none", "resolved", "timeout", "failed", "acquire_failed",
                              "begin_failed", "operation_failed", "commit_failed",
                              "pool_unavailable"}]
    /\ operations \in [Calls -> 0..MaxOperations]
    /\ missing \in [Calls -> SUBSET (1..MaxOperations)]
    /\ isolation \in [Calls -> RequestIsolations \cup {"none"}]
    /\ isolationLevel \in [Calls -> Isolations \cup {"none"}]
    /\ reported \in [Calls -> Isolations \cup {"none"}]
    /\ operationIndex \in [Calls -> Nat]
    /\ \A i \in Calls : inflight[i] \subseteq 1..MaxOperations
    /\ commits \in [Calls -> Nat] /\ rollbacks \in [Calls -> Nat]
    /\ cause \in [Calls -> 0..MaxOperations]
    /\ failedOperation \in [Calls -> 0..MaxOperations]
    /\ store \subseteq (Calls \X (1..MaxOperations))
    /\ \A i \in Calls : uncommitted[i] \subseteq 1..MaxOperations
    /\ \A id \in DOMAIN jobs : jobs[id].status \in {"undefined", "processing", "done", "error"}
    /\ task \in [1..MaxSubmissions -> {"idle", "rejected", "running", "finished"}]
    /\ \A id \in DOMAIN created : created[id] \in 0..MaxSubmissions

\* ---- utils/jobManager.ts and POST /api/async-query ----

Submissions == 1..MaxSubmissions
\* request ids the clients use; "" is a request without the header
JobIds == {"r1", "r2"}
Headers == JobIds \cup {""}
\* the ids the requestId middleware makes up, one per request:
\* `req_${Date.now()}_${Math.random()...}`
GeneratedNames == <<"req_1", "req_2", "req_3", "req_4">>
GeneratedId(s) == GeneratedNames[s]
\* every key the jobs record can get
AllJobIds == JobIds \cup {GeneratedId(s) : s \in Submissions}
\* jobs[requestId] of an id that was never written
NoJob == [status |-> "undefined", payload |-> <<>>]
Terminal == {"done", "error"}

\* what the background query of submission s resolves or rejects with
QueryResultOf(s) == <<"rows", s>>
QueryErrorOf(s) == <<"message", s>>

\* (mutant) createJob keeps the record of an id that already has one
CreateJobUnlessPresent(js, id) ==
    IF js[id].status = "undefined"
    THEN [js EXCEPT ![id] = [status |-> "processing", payload |-> <<>>]]
    ELSE js

\* createJob: jobs[requestId] = { status: 'processing' }
CreateJob(js, id) == [js EXCEPT ![id] = [status |-> "processing", payload |-> <<>>]]

\* setJobResult: jobs[requestId] = { status: 'done', result }
SetJobResult(js, id, result) == [js EXCEPT ![id] = [status |-> "done", payload |-> result]]

\* setJobError: jobs[requestId] = { status: 'error', error }
SetJobError(js, id, error) == [js EXCEPT ![id] = [status |-> "error", payload |-> error]]

\* getJob: jobs[requestId]
GetJob(js, id) == js[id]

JobsInit ==
    /\ jobs = [id \in AllJobIds |-> NoJob]
    /\ task = [s \in Submissions |-> "idle"]
    /\ taskId = [s \in Submissions |-> ""]
    /\ created = [id \in AllJobIds |-> 0]
    /\ observed = [id \in AllJobIds |-> NoJob]

\* POST /async-query: without the header 400; otherwise createJob, the
\* background task is started and the acknowledgement is sent.
\* Submissions are numbered in the order they arrive.
AsyncQueryHandler(s, header) ==
    /\ task[s] = "idle"
    /\ IF s = 1 THEN TRUE ELSE task[s - 1] # "idle"
    /\ taskId' = [taskId EXCEPT ![s] = header]
    /\ IF header = ""
       THEN /\ task' = [task EXCEPT ![s] = "rejected"]
            /\ UNCHANGED <<jobs, created>>
       ELSE /\ jobs' = CreateJob(jobs, header)
            /\ created' = [created EXCEPT ![header] = s]
            /\ task' = [task EXCEPT ![s] = "running"]

\* the route on its own router, as the header reaches it
PostAsyncQuery(s, header) ==
    /\ AsyncQueryHandler(s, header)
    /\ UNCHANGED <<observed, connectionVars, guardVars, rawVars, pageVars, crudVars, routeVars>>

\* middleware requestId: the header of the request, or a made-up id, is
\* written to req.headers['x-request-id']
RequestId(s, header) == IF header # "" THEN header ELSE GeneratedId(s)

\* The request through the application: app.use(requestId) runs before
\* the router mounted at /api.
AppPostAsyncQuery(s, header) ==
    /\ AsyncQueryHandler(s, RequestId(s, header))
    /\ sent' = [sent EXCEPT ![s] = header]
    /\ UNCHANGED <<observed, connectionVars, guardVars, rawVars, pageVars, crudVars,
                   byIdVars, updateVars>>

\* The background query of a submission has finished: setJobResult with its
\* result, or setJobError with the message of what it threw.
BackgroundDone(s, ok) ==
    /\ task[s] = "running"
    /\ task' = [task EXCEPT ![s] = "finished"]
    /\ jobs' = IF ok THEN SetJobResult(jobs, taskId[s], QueryResultOf(s))
                     ELSE SetJobError(jobs, taskId[s], QueryErrorOf(s))
    /\ UNCHANGED <<taskId, created, observed, connectionVars, guardVars, rawVars, pageVars, crudVars, routeVars>>

BackgroundResult(s) == BackgroundDone(s, TRUE)
BackgroundError(s) == BackgroundDone(s, FALSE)

\* GET /jobs/:requestId/status and /result: both answer from getJob
GetJobRoute(id) ==
    /\ observed' = [observed EXCEPT ![id] = GetJob(jobs, id)]
    /\ UNCHANGED <<jobs, task, taskId, created, connectionVars, guardVars, rawVars, pageVars, crudVars, routeVars>>

JobNext ==
    \/ \E s \in Submissions, h \in Headers : PostAsyncQuery(s, h)
    \/ \E s \in Submissions : BackgroundResult(s)
    \/ \E s \in Submissions : BackgroundError(s)
    \/ \E id \in JobIds : GetJobRoute(id)

ChainIdle == sent = [s \in Submissions |-> "unsent"]

AppNext ==
    \/ \E s \in Submissions, h \in Headers : AppPostAsyncQuery(s, h)
    \/ \E s \in Submissions : BackgroundResult(s)
    \/ \E s \in Submissions : BackgroundError(s)
    \/ \E id \in JobIds : GetJobRoute(id)

\* ---- middleware/validation.ts: validateSqlQuery ----

\* A SQL string is a sequence of tokens: a word, one white-space character
\* or one punctuation character.  Two neighbouring tokens are adjacent in
\* the string, so <<"-", "-">> is "--".
Space == {" ", "\n"}
\* the tokens the enumerated strings are made of
SqlTokens == {"SELECT", "DROP", "alter", "TABLE", "GRANT", " ", ";", "-", "/", "*", "X"}

\* the /i flag: words compare in upper case
Upper(t) ==
    CASE t = "select" -> "SELECT"
      [] t = "alter" -> "ALTER"
      [] t = "drop" -> "DROP"
      [] OTHER -> t

\* "SELECT 1; DROP TABLE X"
SelectThenDrop == <<"SELECT", " ", "1", ";", " ", "DROP", " ", "TABLE", " ", "X">>
\* "SELECT * FROM X WHERE Y = ?"
SelectStar ==
    <<"SELECT", " ", "*", " ", "FROM", " ", "X", " ", "WHERE", " ", "Y", " ", "=", " ", "?">>

RECURSIVE Strings(_)
Strings(n) ==
    IF n = 0 THEN {<<>>}
    ELSE LET shorter == Strings(n - 1)
         IN shorter \cup {Append(w, t) : w \in {v \in shorter : Len(v) = n - 1},
                                         t \in SqlTokens}

SqlInputs == Strings(MaxSqlLen) \cup {SelectThenDrop, SelectStar}

\* word, white space, one of the words `after`: /WORD\s+(A|B)/i
WordThenWord(w, word, after) ==
    \E i, j \in 1..Len(w) :
        /\ i + 1 < j
        /\ Upper(w[i]) = word
        /\ \A k \in (i + 1)..(j - 1) : w[k] \in Space
        /\ Upper(w[j]) \in after

\* word and white space: /WORD\s+/i
WordThenSpace(w, word) ==
    \E i \in 1..(Len(w) - 1) : Upper(w[i]) = word /\ w[i + 1] \in Space

\* two adjacent characters: /--/ and /\/\*/
Adjacent(w, a, b) ==
    \E i \in 1..(Len(w) - 1) : w[i] = a /\ w[i + 1] = b

\* /;\s*$/: a semicolon with nothing but white space after it
TrailingTerminator(w) ==
    \E i \in 1..Len(w) : w[i] = ";" /\ \A k \in (i + 1)..Len(w) : w[k] \in Space

\* /EXECUTE\s+AS\s+/i
ExecuteAs(w) ==
    \E i, j \in 1..(Len(w) - 1) :
        /\ i + 1 < j
        /\ Upper(w[i]) = "EXECUTE"
        /\ \A k \in (i + 1)..(j - 1) : w[k] \in Space
        /\ Upper(w[j]) = "AS"
        /\ w[j + 1] \in Space

\* dangerousPatterns: some pattern matches somewhere in the string
Dangerous(w) ==
    \/ WordThenWord(w, "ALTER", {"TABLE", "DATABASE"})
    \/ WordThenSpace(w, "GRANT")
    \/ WordThenSpace(w, "REVOKE")
    \/ ExecuteAs(w)
    \/ Adjacent(w, "-", "-")
    \/ Adjacent(w, "/", "*")
    \/ TrailingTerminator(w)

\* sql.trim()
Trim(w) ==
    LET kept == {i \in 1..Len(w) : w[i] \notin Space}
    IN IF kept = {} THEN <<>>
       ELSE LET start == CHOOSE i \in kept : \A k \in kept : i <= k
                end == CHOOSE i \in kept : \A k \in kept : k <= i
            IN SubSeq(w, start, end)

\* allowedOperations: /^(SELECT|INSERT|UPDATE|DELETE|EXECUTE|CALL|CREATE|DROP)\s+/i
AllowedOperation(w) ==
    /\ Len(w) >= 2
    /\ Upper(w[1]) \in {"SELECT", "INSERT", "UPDATE", "DELETE", "EXECUTE", "CALL",
                        "CREATE", "DROP"}
    /\ w[2] \in Space

\* validateSqlQuery: throws for a dangerous pattern, throws for a string
\* that does not start with an allowed operation, returns otherwise
ValidateSqlQuery(w) ==
    IF Dangerous(w) THEN "dangerous"
    ELSE IF ~AllowedOperation(Trim(w)) THEN "not_allowed"
    ELSE "accepted"

\* no validation in progress
GuardIdle == sql = <<>> /\ verdict = "none"
\* some string is about to be validated
GuardInit == sql \in SqlInputs /\ verdict = "none"

Validate ==
    /\ verdict = "none"
    /\ verdict' = ValidateSqlQuery(sql)
    /\ UNCHANGED <<sql, connectionVars, jobVars, rawVars, pageVars, crudVars, routeVars>>

GuardNext == Validate

\* ---- routes/query.ts, routes/transaction.ts, routes/async.ts: raw SQL ----

RawRoutes == {"query/execute", "query/command", "transaction/execute", "async-query"}

\* "SELECT 1 --", "alter TABLE X", "DROP TABLE X", "SELECT 1;"
SelectComment == <<"SELECT", " ", "1", " ", "-", "-">>
AlterTable == <<"alter", " ", "TABLE", " ", "X">>
DropTable == <<"DROP", " ", "TABLE", " ", "X">>
SelectTerminated == <<"SELECT", " ", "1", ";">>
\* the SQL strings request bodies are made of
RouteSqls == {SelectStar, SelectThenDrop, SelectComment, AlterTable, DropTable,
              SelectTerminated}

\* req.body: one sql, or operations[].sql for a transaction (1..100 of them)
Bodies(r) ==
    IF r = "transaction/execute"
    THEN UNION {[1..n -> RouteSqls] : n \in 1..MaxOperations}
    ELSE {<<q>> : q \in RouteSqls}

\* no request in hand
RawIdle ==
    /\ route = "none" /\ body = <<>> /\ hasRequestId = FALSE
    /\ status = "idle" /\ reached = <<>>

\* a request arrives at one of the routes
Receive(r, b, h) ==
    /\ status \in {"idle", "400", "200"}
    /\ route' = r /\ body' = b /\ hasRequestId' = h
    /\ status' = "received" /\ reached' = <<>>
    /\ UNCHANGED <<connectionVars, jobVars, guardVars, pageVars, crudVars, routeVars>>

\* validateSqlQuery on every sql of the body, then the executor; a throw
\* of validateSqlQuery is answered 400 by the error handler
Guarded(r, executor) ==
    /\ status = "received" /\ route = r
    /\ IF \E k \in 1..Len(body) : ValidateSqlQuery(body[k]) # "accepted"
       THEN reached' = reached /\ status' = "400"
       ELSE reached' = body /\ status' = "200"
    /\ UNCHANGED <<route, body, hasRequestId, connectionVars, jobVars, guardVars, pageVars, crudVars, routeVars>>

\* POST /api/query/execute
QueryExecute == Guarded("query/execute", "executeQuery")
\* POST /api/query/command
QueryCommand == Guarded("query/command", "executeCommand")
\* POST /api/transaction/execute
TransactionExecute == Guarded("transaction/execute", "executeTransaction")

\* POST /api/async-query: the handler
AsyncQuery ==
    /\ status = "received" /\ route = "async-query"
    /\ status' = IF hasRequestId THEN "background" ELSE "400"
    /\ UNCHANGED <<route, body, hasRequestId, reached, connectionVars, jobVars, guardVars, pageVars, crudVars, routeVars>>

\* POST /api/async-query: the background task
AsyncBackground ==
    /\ status = "background"
    /\ reached' = body /\ status' = "200"
    /\ UNCHANGED <<route, body, hasRequestId, connectionVars, jobVars, guardVars, pageVars, crudVars, routeVars>>

RawNext ==
    \/ \E r \in RawRoutes : \E b \in Bodies(r) :
           \E h \in IF r = "async-query" THEN BOOLEAN ELSE {FALSE} : Receive(r, b, h)
    \/ QueryExecute
    \/ QueryCommand
    \/ TransactionExecute
    \/ AsyncQuery
    \/ AsyncBackground

\* ---- utils/index.ts, database/crud.ts, routes/query.ts: pagination ----

DefaultLimit == 100
LimitCap == 1000

\* An optional number is <<>> (undefined) or <<n>>.
Optional(S) == {<<>>} \cup {<<n>> : n \in S}
\* x || d
OrElse(x, d) == IF x # <<>> /\ x[1] # 0 THEN x[1] ELSE d
\* x ? a : b and !x
Truthy(x) == x # <<>> /\ x[1] # 0

Min(a, b) == IF a <= b THEN a ELSE b
Max(a, b) == IF a >= b THEN a ELSE b

\* the limits tried: around zero, around the cap
Limits == {-1, 0, 1, 2, LimitCap - 1, LimitCap, LimitCap + 1}
Paginations ==
    [page : Optional(-1..MaxPage), limit : Optional(Limits),
     offset : Optional(-1..MaxOffset)]

\* `ROWS ${a} TO ${b}`
RowsClause(a, b) == <<"ROWS", a, "TO", b>>

\* (mutant) a window that starts at the offset itself
CreatePaginationFromOffset(page, limit, offset) ==
    IF ~Truthy(limit) THEN <<>>
    ELSE LET actualOffset ==
                 OrElse(offset, IF Truthy(page) THEN (page[1] - 1) * limit[1] ELSE 0)
         IN RowsClause(actualOffset, actualOffset + limit[1])

\* utils: createPagination
CreatePagination(page, limit, offset) ==
    IF ~Truthy(limit) THEN <<>>
    ELSE LET actualOffset ==
                 OrElse(offset, IF Truthy(page) THEN (page[1] - 1) * limit[1] ELSE 0)
         IN RowsClause(actualOffset + 1, actualOffset + limit[1])

\* CrudService.select: the clause appended when pagination is given
SelectRows(p) ==
    LET limit == OrElse(p.limit, DefaultLimit)
        offset == OrElse(p.offset, IF Truthy(p.page) THEN (p.page[1] - 1) * limit ELSE 0)
    IN RowsClause(offset + 1, offset + limit)

\* POST /api/query/execute: the clause appended when pagination is given
QueryExecuteRows(p) ==
    LET limit == OrElse(p.limit, DefaultLimit)
        offset == OrElse(p.offset, IF Truthy(p.page) THEN (p.page[1] - 1) * limit ELSE 0)
    IN RowsClause(offset + 1, offset + limit)

\* utils: normalizePagination
NormalizePagination(page, limit, offset) ==
    LET normalizedLimit == Min(OrElse(limit, DefaultLimit), LimitCap)
        normalizedPage == Max(OrElse(page, 1), 1)
        normalizedOffset == OrElse(offset, (normalizedPage - 1) * normalizedLimit)
    IN [limit |-> normalizedLimit, offset |-> normalizedOffset, page |-> normalizedPage]

\* Firebird: the positions ROWS a TO b selects from a result set, which
\* is taken long enough to hold every window tried
ResultSetRows == (MaxPage + 1) * (LimitCap + 1)
Selected(clause) == {r \in 1..ResultSetRows : clause[2] <= r /\ r <= clause[4]}

NotNormalized == [limit |-> 0, offset |-> 0, page |-> 0]
PageIdle ==
    /\ pagination = [page |-> <<>>, limit |-> <<>>, offset |-> <<>>]
    /\ appliedBy = "none" /\ window = <<>> /\ normalized = NotNormalized
PageInit ==
    /\ pagination \in Paginations
    /\ appliedBy = "none" /\ window = <<>> /\ normalized = NotNormalized

Paginate(by, clause) ==
    /\ appliedBy = "none"
    /\ appliedBy' = by /\ window' = clause
    /\ UNCHANGED <<pagination, normalized, connectionVars, jobVars, guardVars, rawVars, crudVars, routeVars>>

CallCreatePagination ==
    Paginate("createPagination",
             CreatePagination(pagination.page, pagination.limit, pagination.offset))
CallSelect == Paginate("select", SelectRows(pagination))
CallQueryExecute == Paginate("query/execute", QueryExecuteRows(pagination))
CallNormalizePagination ==
    /\ appliedBy = "none"
    /\ appliedBy' = "normalizePagination"
    /\ normalized' = NormalizePagination(pagination.page, pagination.limit, pagination.offset)
    /\ UNCHANGED <<pagination, window, connectionVars, jobVars, guardVars, rawVars, crudVars, routeVars>>

PageNext ==
    \/ CallCreatePagination
    \/ CallSelect
    \/ CallQueryExecute
    \/ CallNormalizePagination

\* ---- database/crud.ts over database/connection.ts: one table ----

Keys == 1..MaxRows
Names == {"a", "b"}

\* What the driver hands to the callback of db.execute for
\* INSERT ... RETURNING ID with generated key k: the returned row, as an
\* object or as an array of its values.
ReturningResults(k) ==
    {[isArray |-> FALSE, items |-> <<k>>], [isArray |-> TRUE, items |-> <<k>>]}
\* for a statement that returns nothing
NoResult == [isArray |-> FALSE, items |-> <<>>]

\* result[0]: undefined when the array has no first element
FirstItem(items) == IF Len(items) >= 1 THEN <<items[1]>> ELSE <<>>

\* executeCommand: the ExecuteResult resolved from the driver's result
ExecuteResult(result) ==
    [affectedRows |-> IF result.isArray THEN Len(result.items) ELSE 0,
     recordId |-> IF result.isArray /\ Len(result.items) = 0
                  THEN FirstItem(result.items) ELSE <<>>]

\* executeQuery: the QueryResult resolved from the rows of a SELECT
QueryResult(rows) == [rows |-> rows, count |-> Cardinality(rows)]

\* SELECT ... WHERE ID = ?: no row compares equal to a null parameter
WhereId(t, id) == {r \in t : id # <<>> /\ r.id = id[1]}

\* (mutant) a probe that leaves the predicate out
ExistsAnyRow(t, id) ==
    LET matching == t
        result == QueryResult(IF matching = {} THEN {}
                              ELSE {CHOOSE r \in matching : TRUE})
    IN result.count > 0

\* CrudService.exists with the predicate ID = ?: SELECT 1 ... ROWS 1
Exists(t, id) ==
    LET matching == WhereId(t, id)
        result == QueryResult(IF matching = {} THEN {}
                              ELSE {CHOOSE r \in matching : TRUE})
    IN result.count > 0

\* CrudService.selectById
SelectById(t, id) == QueryResult(WhereId(t, id))

NoCall == [op |-> "none", id |-> <<>>, name |-> "", returned |-> <<>>, hit |-> FALSE,
           rows |-> {}]
CrudInit == table = {} /\ last = NoCall /\ prev = NoCall

Called(call) ==
    /\ last' = call /\ prev' = last
    /\ UNCHANGED <<connectionVars, jobVars, guardVars, rawVars, pageVars, routeVars>>

\* CrudService.insertAndReturnId -> insert -> executeCommand: the row is
\* stored under a key the table does not hold yet
InsertAndReturnId(k, name, result) ==
    /\ \A r \in table : r.id # k
    /\ table' = table \cup {[id |-> k, name |-> name]}
    /\ Called([op |-> "insertAndReturnId", id |-> <<k>>, name |-> name,
               returned |-> ExecuteResult(result).recordId, hit |-> TRUE, rows |-> {}])

\* CrudService.deleteById -> delete -> executeCommand
DeleteById(k) ==
    /\ table' = table \ WhereId(table, <<k>>)
    /\ Called([op |-> "deleteById", id |-> <<k>>, name |-> "",
               returned |-> ExecuteResult(NoResult).recordId,
               hit |-> WhereId(table, <<k>>) # {}, rows |-> {}])

\* CrudService.exists(table, 'ID = ?', [k])
CallExists(k) ==
    /\ table' = table
    /\ Called([op |-> "exists", id |-> <<k>>, name |-> "", returned |-> <<>>,
               hit |-> Exists(table, <<k>>), rows |-> {}])

\* CrudService.selectById(table, id), id possibly undefined
CallSelectById(id) ==
    /\ table' = table
    /\ Called([op |-> "selectById", id |-> id, name |-> "", returned |-> <<>>,
               hit |-> SelectById(table, id).count > 0,
               rows |-> SelectById(table, id).rows])

CrudNext ==
    \/ \E k \in Keys, name \in Names : \E result \in ReturningResults(k) :
           InsertAndReturnId(k, name, result)
    \/ \E k \in Keys : DeleteById(k)
    \/ \E k \in Keys : CallExists(k)
    \/ \E id \in Optional(Keys) : CallSelectById(id)

\* ---- routes/crud.ts: PUT and DELETE /api/crud/:table/:id ----

Requests == 1..MaxRequests
Columns == {"ID", "CODE"}
\* the rows the table may hold: row k has ID k and another value as CODE
Row(k) == [ID |-> k, CODE |-> MaxRows + 1 - k]

\* WHERE ${column} = ?
Where(t, column, id) == {r \in t : r[column] = id}

\* What the driver hands to the callback of db.execute for
\* UPDATE ... RETURNING column: one row, as an object or as an array of its
\* one value; for a statement without RETURNING: undefined or no rows.
UpdateResults(column) ==
    IF column = "" THEN {NoResult, [isArray |-> TRUE, items |-> <<>>]}
    ELSE {[isArray |-> FALSE, items |-> <<column>>], [isArray |-> TRUE, items |-> <<column>>]}
DeleteResults == {NoResult, [isArray |-> TRUE, items |-> <<>>]}

NoRequest ==
    [method |-> "none", id |-> 0, pc |-> "idle", status |-> "none", message |-> "none",
     affectedRows |-> 0, absent |-> FALSE, checkedColumn |-> "none", tested |-> {},
     issued |-> FALSE, statementColumn |-> "none", touched |-> {}, queries |-> 0]

ByIdIdle ==
    /\ primaryKey = "ID" /\ listed = TRUE /\ records = {}
    /\ req = [r \in Requests |-> NoRequest]
\* some table, with or without rows
ByIdInit ==
    /\ primaryKey \in Columns \cup {""}
    /\ listed \in BOOLEAN
    /\ records \in SUBSET {Row(k) : k \in Keys}
    /\ req = [r \in Requests |-> NoRequest]

OtherThanById ==
    <<connectionVars, jobVars, guardVars, rawVars, pageVars, crudVars, updateVars,
      chainVars>>

\* the errorHandler's response to a thrown error
Answer(r, code, message) ==
    req' = [req EXCEPT ![r].pc = "done", ![r].status = code, ![r].message = message]

\* a PUT or DELETE arrives; requests are numbered in the order they arrive
Arrive(r, method, id) ==
    /\ req[r].pc = "idle"
    /\ IF r = 1 THEN TRUE ELSE req[r - 1].pc # "idle"
    /\ req' = [req EXCEPT ![r].method = method, ![r].id = id, ![r].pc = "table"]
    /\ UNCHANGED <<primaryKey, listed, records, OtherThanById>>

\* crudService.getTables() and the 404 for a table not in the list
CheckTable(r) ==
    /\ req[r].pc = "table"
    /\ IF listed
       THEN req' = [req EXCEPT ![r].pc = "record"]
       ELSE Answer(r, "404", "Table not found")
    /\ UNCHANGED <<primaryKey, listed, records, OtherThanById>>

\* CrudService.getPrimaryKey: the key column, '' when there is none
GetPrimaryKey == primaryKey

\* crudService.existsById(table, id) and the 404 for a missing record;
\* WHERE  = ? with an empty column name is a statement error
CheckRecord(r) ==
    /\ req[r].pc = "record"
    /\ LET idColumn == GetPrimaryKey
           absent == \A c \in Columns : Where(records, c, req[r].id) = {}
       IN IF idColumn = ""
          THEN req' = [req EXCEPT ![r].pc = "done", ![r].status = "500",
                                  ![r].message = "Query execution failed",
                                  ![r].absent = absent, ![r].checkedColumn = idColumn,
                                  ![r].queries = 1]
          ELSE IF Where(records, idColumn, req[r].id) # {}
          THEN req' = [req EXCEPT ![r].pc = "statement", ![r].absent = absent,
                                  ![r].checkedColumn = idColumn,
                                  ![r].tested = Where(records, idColumn, req[r].id),
                                  ![r].queries = 1]
          ELSE req' = [req EXCEPT ![r].pc = "done", ![r].status = "404",
                                  ![r].message = "Record not found",
                                  ![r].absent = absent, ![r].checkedColumn = idColumn,
                                  ![r].queries = 1]
    /\ UNCHANGED <<primaryKey, listed, records, OtherThanById>>

\* the response of a handler that got an ExecuteResult
Succeed(r, message, column, touched, result) ==
    req' = [req EXCEPT ![r].pc = "done", ![r].status = "200", ![r].message = message,
                       ![r].affectedRows = ExecuteResult(result).affectedRows,
                       ![r].issued = TRUE, ![r].statementColumn = column,
                       ![r].touched = touched]

\* CrudService.updateById: the column of getPrimaryKey
UpdateColumn == GetPrimaryKey
\* CrudService.deleteById called without idColumn: the default 'ID'
DeleteColumn == "ID"

\* PUT: crudService.updateById(table, id, data) and the 200
PutStatement(r, result) ==
    /\ req[r].pc = "statement" /\ req[r].method = "PUT"
    /\ Succeed(r, "Record updated successfully", UpdateColumn,
               Where(records, UpdateColumn, req[r].id), result)
    /\ UNCHANGED <<primaryKey, listed, records, OtherThanById>>

\* DELETE: crudService.deleteById(table, id) and the 200
DeleteStatement(r, result) ==
    /\ req[r].pc = "statement" /\ req[r].method = "DELETE"
    /\ records' = records \ Where(records, DeleteColumn, req[r].id)
    /\ Succeed(r, "Record deleted successfully", DeleteColumn,
               Where(records, DeleteColumn, req[r].id), result)
    /\ UNCHANGED <<primaryKey, listed, OtherThanById>>

ByIdNext ==
    \/ \E r \in Requests, method \in {"PUT", "DELETE"}, id \in Keys : Arrive(r, method, id)
    \/ \E r \in Requests : CheckTable(r)
    \/ \E r \in Requests : CheckRecord(r)
    \/ \E r \in Requests : \E result \in UpdateResults(UpdateColumn) : PutStatement(r, result)
    \/ \E r \in Requests : \E result \in DeleteResults : DeleteStatement(r, result)

\* ---- database/crud.ts: update, routes/transaction.ts: batch-update ----

ColumnNames == {"NAME", "RATE", "CODE"}
Values == {"v1", "v2"}
PredicateValues == {"p1", "p2"}

\* a data mapping with distinct keys, as the pairs Object.keys and
\* Object.values enumerate, both in the same order
DataMappings ==
    {d \in UNION {[1..n -> ColumnNames \X Values] : n \in 0..MaxKeys} :
        \A i, j \in 1..Len(d) : i # j => d[i][1] # d[j][1]}
ExtraParamLists == UNION {[1..n -> PredicateValues] : n \in 0..MaxExtraParams}

ObjectKeys(d) == [j \in 1..Len(d) |-> d[j][1]]
ObjectValues(d) == [j \in 1..Len(d) |-> d[j][2]]

\* keys.map(key => `${key} = ?`).join(', '), as tokens
RECURSIVE SetClause(_)
SetClause(keys) ==
    IF keys = <<>> THEN <<>>
    ELSE IF Len(keys) = 1 THEN <<keys[1], "=", "?">>
    ELSE <<keys[1], "=", "?", ",">> \o SetClause(Tail(keys))

\* (mutant) the predicate parameters first
UpdateExtraFirst(d, extra) ==
    [set |-> SetClause(ObjectKeys(d)), params |-> extra \o ObjectValues(d)]

\* CrudService.update: the SET clause and the values of the statement
Update(d, extra) ==
    [set |-> SetClause(ObjectKeys(d)), params |-> ObjectValues(d) \o extra]

\* POST /batch-update: the operation built for one update {id, data}
BatchUpdateOperation(d, id) ==
    [set |-> SetClause(ObjectKeys(d)), params |-> ObjectValues(d) \o <<id>>]

NoStatement == [set |-> <<>>, params |-> <<>>]
UpdateIdle ==
    data = <<>> /\ extraParams = <<>> /\ builtBy = "none" /\ statement = NoStatement
UpdateInit ==
    /\ data \in DataMappings /\ extraParams \in ExtraParamLists
    /\ builtBy = "none" /\ statement = NoStatement

CallUpdate ==
    /\ builtBy = "none"
    /\ builtBy' = "update" /\ statement' = Update(data, extraParams)
    /\ UNCHANGED <<data, extraParams, connectionVars, jobVars, guardVars, rawVars,
                   pageVars, crudVars, byIdVars, chainVars>>

\* the route binds one predicate parameter, the id, and needs a key
CallBatchUpdate ==
    /\ builtBy = "none" /\ Len(data) >= 1 /\ Len(extraParams) = 1
    /\ builtBy' = "batch-update"
    /\ statement' = BatchUpdateOperation(data, extraParams[1])
    /\ UNCHANGED <<data, extraParams, connectionVars, jobVars, guardVars, rawVars,
                   pageVars, crudVars, byIdVars, chainVars>>

UpdateNext ==
    \/ CallUpdate
    \/ CallBatchUpdate

\* The state after the constructor: initializePool either got its pool
\* (ok) or caught the error of Firebird.pool.
Constructed(ok) ==
    /\ pool = IF ok THEN "pool" ELSE "null"
    /\ isConnected = ok
    /\ dbinuse = 0 /\ pooldb = <<>> /\ pending = <<>> /\ attached = 0
    /\ kind = [i \in Calls |-> "none"]
    /\ pc = [i \in Calls |-> "idle"]
    /\ db = [i \in Calls |-> 0]
    /\ finished = [i \in Calls |-> FALSE]
    /\ timeoutId = [i \in Calls |-> FALSE]
    /\ detached = [i \in Calls |-> 0]
    /\ deferred = [i \in Calls |-> FALSE]
    /\ outcome = [i \in Calls |-> "none"]
    /\ settles = [i \in Calls |-> 0]
    /\ operations = [i \in Calls |-> 0]
    /\ missing = [i \in Calls |-> {}]
    /\ isolation = [i \in Calls |-> "none"]
    /\ isolationLevel = [i \in Calls |-> "none"]
    /\ reported = [i \in Calls |-> "none"]
    /\ operationIndex = [i \in Calls |-> 0]
    /\ results = [i \in Calls |-> <<>>]
    /\ inflight = [i \in Calls |-> {}]
    /\ submitted = [i \in Calls |-> <<>>]
    /\ commits = [i \in Calls |-> 0]
    /\ rollbacks = [i \in Calls |-> 0]
    /\ cause = [i \in Calls |-> 0]
    /\ failedOperation = [i \in Calls |-> 0]
    /\ returned = [i \in Calls |-> <<>>]
    /\ store = {}
    /\ uncommitted = [i \in Calls |-> {}]

\* everything outside the connection manager starts empty
ServicesInit == JobsInit /\ GuardIdle /\ RawIdle /\ PageIdle /\ CrudInit /\ ByIdIdle /\ UpdateIdle /\ ChainIdle

Init == Constructed(TRUE) /\ ServicesInit

\* ---- the pool (Firebird.pool(config.pool.max, config.firebird)) ----

\* (mutant) the pool is created one connection larger than configured
PoolLimitOffByOne == PoolMax + 1

\* the size the pool is created with
PoolLimit == PoolMax

\* db.detach() of a pooled connection hands it back to the pool's free list
\* (a connection that is already there is left alone)
Detach(c) ==
    IF c \in Range(pooldb)
    THEN UNCHANGED <<dbinuse, pooldb>>
    ELSE /\ pooldb' = Append(pooldb, c)
         /\ dbinuse' = dbinuse - 1

\* resolve / reject of the promise a call returned: the first one settles it
Settle(i, how) ==
    /\ outcome' = [outcome EXCEPT ![i] = IF @ = "none" THEN how ELSE @]
    /\ settles' = [settles EXCEPT ![i] = @ + 1]

\* the isolation level db.transaction is given
TransactionIsolation(requested) == "READ_COMMITTED"

\* (mutant) getConnection does not test this.pool and this.isConnected
PoolNeverUnavailable == FALSE

\* `!this.pool || !this.isConnected` of getConnection
PoolUnavailable == pool = "null" \/ ~isConnected

\* A client calls executeQuery, executeCommand or (through the route and
\* CrudService) executeTransaction; getConnection queues a pool.get.
\* Calls are numbered in the order they are made.
Call(i, k, n, falsy, iso) ==
    /\ pc[i] = "idle"
    /\ IF i = 1 THEN TRUE ELSE pc[i - 1] # "idle"
    /\ kind' = [kind EXCEPT ![i] = k]
    /\ operations' = [operations EXCEPT ![i] = n]
    /\ missing' = [missing EXCEPT ![i] = falsy]
    /\ isolation' = [isolation EXCEPT ![i] = iso]
    /\ IF PoolUnavailable
       THEN /\ pc' = [pc EXCEPT ![i] = "closed"]
            /\ Settle(i, "pool_unavailable")
            /\ UNCHANGED pending
       ELSE /\ pending' = Append(pending, i)
            /\ pc' = [pc EXCEPT ![i] = "waiting"]
            /\ UNCHANGED <<outcome, settles>>
    /\ UNCHANGED <<serviceVars, managerVars, dbinuse, pooldb, attached, db, finished, timeoutId,
                   detached, deferred, isolationLevel, reported,
                   operationIndex, results, inflight, submitted, commits,
                   rollbacks, failedOperation, cause, returned, dbVars>>

\* a call whose operations list, if any, holds an operation at every position
GetConnection(i, k, n, iso) == Call(i, k, n, {}, iso)

ExecuteQuery(i) == GetConnection(i, "query", 0, "none")
ExecuteCommand(i) == GetConnection(i, "command", 0, "none")
\* executeTransaction called without an isolation argument, as
\* CrudService.executeTransaction does for every route; the list may be empty
ExecuteTransaction(i) ==
    \E n \in 0..MaxOperations : GetConnection(i, "transaction", n, "absent")
\* executeTransaction called with a list that holds no operation (null,
\* undefined) at one or more positions
ExecuteTransactionSparse(i) ==
    \E n \in 1..MaxOperations : \E falsy \in (SUBSET (1..n)) \ {{}} :
        Call(i, "transaction", n, falsy, "absent")
\* POST /api/transaction/execute: at least one operation (the schema's
\* min(1)) and, optionally, isolation
PostTransactionExecute(i) ==
    \E n \in 1..MaxOperations, iso \in RequestIsolations : GetConnection(i, "transaction", n, iso)

\* The pool serves the oldest queued get while fewer than max connections
\* are out: a free connection if there is one, a newly attached one
\* otherwise.  The call resumes after its await: executeQuery and
\* executeCommand arm the timer and submit the statement,
\* executeTransaction asks the driver for a transaction.
PoolGet ==
    /\ pending # <<>>
    /\ dbinuse < PoolLimit
    /\ LET i == Head(pending)
           c == IF pooldb # <<>> THEN Head(pooldb) ELSE attached + 1
       IN /\ pending' = Tail(pending)
          /\ dbinuse' = dbinuse + 1
          /\ pooldb' = IF pooldb # <<>> THEN Tail(pooldb) ELSE pooldb
          /\ attached' = IF pooldb # <<>> THEN attached ELSE attached + 1
          /\ db' = [db EXCEPT ![i] = c]
          /\ IF kind[i] = "transaction"
             THEN /\ pc' = [pc EXCEPT ![i] = "beginning"]
                  /\ isolationLevel' = [isolationLevel EXCEPT
                                          ![i] = TransactionIsolation(isolation[i])]
                  /\ UNCHANGED timeoutId
             ELSE /\ pc' = [pc EXCEPT ![i] = "running"]
                  /\ timeoutId' = [timeoutId EXCEPT ![i] = TRUE]
                  /\ UNCHANGED isolationLevel
    /\ UNCHANGED <<serviceVars, managerVars, kind, finished, detached, deferred, outcome, settles,
                   operations, missing, isolation, reported, operationIndex, results,
                   inflight, submitted, commits, rollbacks, failedOperation, cause,
                   returned, dbVars>>

\* The pool could not attach a new connection: pool.get calls back with an
\* error and getConnection rejects.
PoolGetError ==
    /\ pending # <<>>
    /\ dbinuse < PoolLimit
    /\ pooldb = <<>>
    /\ LET i == Head(pending)
       IN /\ pending' = Tail(pending)
          /\ pc' = [pc EXCEPT ![i] = "closed"]
          /\ Settle(i, "acquire_failed")
    /\ UNCHANGED <<serviceVars, managerVars, dbinuse, pooldb, attached, kind, db, finished, timeoutId,
                   detached, deferred, txVars, dbVars>>

\* ---- executeQuery / executeCommand ----

\* (mutant) the driver callback does not look at `finished`
CallbackNeverIgnored(i) == FALSE

\* `if (finished) return;` at the head of the driver callback
CallbackIgnored(i) == finished[i]

\* The timer fires before the driver callback: the call detaches and
\* rejects.  The statement is still in flight; the driver either hands the
\* connection back at once or postpones that until the statement is done.
Timeout(i) ==
    /\ pc[i] = "running"
    /\ timeoutId[i]
    /\ timeoutId' = [timeoutId EXCEPT ![i] = FALSE]
    /\ IF ~finished[i]
       THEN /\ finished' = [finished EXCEPT ![i] = TRUE]
            /\ detached' = [detached EXCEPT ![i] = @ + 1]
            /\ \/ Detach(db[i]) /\ UNCHANGED deferred
               \/ /\ deferred' = [deferred EXCEPT ![i] = TRUE]
                  /\ UNCHANGED <<dbinuse, pooldb>>
            /\ Settle(i, "timeout")
            /\ pc' = [pc EXCEPT ![i] = "abandoned"]
       ELSE UNCHANGED <<finished, detached, deferred, dbinuse, pooldb, outcome,
                        settles, pc>>
    /\ UNCHANGED <<serviceVars, managerVars, pending, attached, kind, db, txVars, dbVars>>

\* The driver calls back with the statement's error or result.
Callback(i, err) ==
    /\ pc[i] \in {"running", "abandoned"}
    /\ pc' = [pc EXCEPT ![i] = "closed"]
    /\ IF CallbackIgnored(i)
       THEN \* a postponed detach happens now that the statement is done
            /\ IF deferred[i] THEN Detach(db[i]) ELSE UNCHANGED <<dbinuse, pooldb>>
            /\ deferred' = [deferred EXCEPT ![i] = FALSE]
            /\ UNCHANGED <<finished, timeoutId, detached, outcome, settles>>
       ELSE /\ finished' = [finished EXCEPT ![i] = TRUE]
            /\ timeoutId' = [timeoutId EXCEPT ![i] = FALSE]
            /\ detached' = [detached EXCEPT ![i] = @ + 1]
            /\ Detach(db[i])
            /\ deferred' = [deferred EXCEPT ![i] = FALSE]
            /\ Settle(i, IF err THEN "failed" ELSE "resolved")
    /\ UNCHANGED <<serviceVars, managerVars, pending, attached, kind, db, txVars, dbVars>>

StatementDone(i) == Callback(i, FALSE)
StatementError(i) == Callback(i, TRUE)

\* ---- executeTransaction ----

\* The part of a call's state executeNext works on.
Sequencer(i) ==
    [length |-> operations[i], missing |-> missing[i],
     operationIndex |-> operationIndex[i],
     inflight |-> inflight[i], submitted |-> submitted[i], commits |-> commits[i]]

\* (mutant) executeNext hands every remaining operation to the driver at
\* once instead of waiting for the callback of the one before
ExecuteNextWithoutWaiting(t) ==
    IF t.operationIndex >= t.length
    THEN [t EXCEPT !.commits = @ + 1]
    ELSE [t EXCEPT !.inflight = @ \cup ((t.operationIndex + 1)..t.length),
                   !.submitted = @ \o [k \in 1..(t.length - t.operationIndex)
                                         |-> t.operationIndex + k],
                   !.operationIndex = t.length]

\* (mutant) executeNext hands the operation to the driver a second time
ExecuteNextResubmitting(t) ==
    IF t.operationIndex >= t.length
    THEN [t EXCEPT !.commits = @ + 1]
    ELSE [t EXCEPT !.inflight = @ \cup {t.operationIndex + 1},
                   !.submitted = @ \o <<t.operationIndex + 1, t.operationIndex + 1>>,
                   !.operationIndex = @ + 1]

\* executeNext: past the end of the list, commit; otherwise hand the
\* operation at operationIndex to transaction.query, if there is one
\* (`if (operation)`), and advance the index.
ExecuteNext(t) ==
    IF t.operationIndex >= t.length
    THEN [t EXCEPT !.commits = @ + 1]
    ELSE IF t.operationIndex + 1 \in t.missing
    THEN [t EXCEPT !.operationIndex = @ + 1]
    ELSE [t EXCEPT !.inflight = @ \cup {t.operationIndex + 1},
                   !.submitted = Append(@, t.operationIndex + 1),
                   !.operationIndex = @ + 1]

\* (mutant) the callback of transaction.query does not test err
OperationErrorIgnored(err) == FALSE

\* `if (err)` in the callback of transaction.query
OperationFailed(err) == err

\* (mutant) results.unshift(result)
Unshift(res, r) == <<r>> \o res

\* results.push(result)
Push(res, r) == Append(res, r)

\* the state of call i after executeNext has run on it
Sequenced(i, t) ==
    /\ operationIndex' = [operationIndex EXCEPT ![i] = t.operationIndex]
    /\ inflight' = [inflight EXCEPT ![i] = t.inflight]
    /\ submitted' = [submitted EXCEPT ![i] = t.submitted]
    /\ commits' = [commits EXCEPT ![i] = t.commits]
    /\ pc' = [pc EXCEPT ![i] = IF t.commits > commits[i] THEN "committing"
                                ELSE IF pc[i] = "beginning" THEN "executing" ELSE @]

\* The driver answers db.transaction: with an error the call rejects, with
\* a transaction executeTransactionOperations starts on the list.
BeginTransaction(i, err) ==
    /\ pc[i] = "beginning"
    /\ IF err
       THEN /\ pc' = [pc EXCEPT ![i] = "closed"]
            /\ Settle(i, "begin_failed")
            /\ UNCHANGED <<operationIndex, inflight, submitted, commits>>
       ELSE /\ Sequenced(i, ExecuteNext(Sequencer(i)))
            /\ UNCHANGED <<outcome, settles>>
    /\ UNCHANGED <<serviceVars, managerVars, poolVars, kind, db, finished, timeoutId, detached, deferred,
                   operations, missing, isolation, isolationLevel, reported, results,
                   rollbacks, failedOperation, cause, returned, dbVars>>

BeginDone(i) == BeginTransaction(i, FALSE)
BeginError(i) == BeginTransaction(i, TRUE)

\* The driver calls back for operation k.  With an error the transaction
\* is rolled back and nothing more is started; with a result the result is
\* pushed, the statement's effect is part of the open transaction, and
\* executeNext runs.
ExecuteTransactionOperation(i, k, err) ==
    /\ k \in inflight[i]
    /\ failedOperation' = [failedOperation EXCEPT
                             ![i] = IF err /\ @ = 0 THEN k ELSE @]
    /\ IF OperationFailed(err)
       THEN /\ inflight' = [inflight EXCEPT ![i] = @ \ {k}]
            /\ rollbacks' = [rollbacks EXCEPT ![i] = @ + 1]
            /\ cause' = [cause EXCEPT ![i] = k]
            /\ pc' = [pc EXCEPT ![i] = "rollingback"]
            /\ UNCHANGED <<results, operationIndex, submitted, commits, uncommitted>>
       ELSE /\ results' = [results EXCEPT ![i] = Push(@, DriverResult(i, k))]
            /\ uncommitted' = [uncommitted EXCEPT
                                 ![i] = IF err THEN @ ELSE @ \cup {k}]
            /\ Sequenced(i, ExecuteNext([Sequencer(i) EXCEPT !.inflight = @ \ {k}]))
            /\ UNCHANGED <<rollbacks, cause>>
    /\ UNCHANGED <<serviceVars, managerVars, poolVars, kind, db, finished, timeoutId, detached, deferred,
                   outcome, settles, operations, missing, isolation, isolationLevel,
                   reported, returned, store>>

OperationDone(i, k) == ExecuteTransactionOperation(i, k, FALSE)
OperationError(i, k) == ExecuteTransactionOperation(i, k, TRUE)

\* The rollback has completed: the open transaction's effects are gone and
\* the call rejects with the operation's error.
RollbackDone(i) ==
    /\ pc[i] = "rollingback"
    /\ pc' = [pc EXCEPT ![i] = "closed"]
    /\ uncommitted' = [uncommitted EXCEPT ![i] = {}]
    /\ Settle(i, "operation_failed")
    /\ UNCHANGED <<serviceVars, managerVars, poolVars, kind, db, finished, timeoutId, detached, deferred,
                   txVars, store>>

\* `isolation || 'READ_COMMITTED'` of the route's response
ResponseIsolation(requested) ==
    IF requested = "absent" THEN "READ_COMMITTED" ELSE requested

\* The commit has completed.  With an error the call rejects; otherwise the
\* effects become visible, the call resolves with the results and the
\* route answers.
CommitTransaction(i, err) ==
    /\ pc[i] = "committing"
    /\ pc' = [pc EXCEPT ![i] = "closed"]
    /\ IF err
       THEN /\ Settle(i, "commit_failed")
            /\ UNCHANGED <<returned, reported, dbVars>>
       ELSE /\ store' = store \cup {<<i, k>> : k \in uncommitted[i]}
            /\ uncommitted' = [uncommitted EXCEPT ![i] = {}]
            /\ Settle(i, "resolved")
            /\ returned' = [returned EXCEPT ![i] = results[i]]
            /\ reported' = [reported EXCEPT ![i] = ResponseIsolation(isolation[i])]
    /\ UNCHANGED <<serviceVars, managerVars, poolVars, kind, db, finished, timeoutId, detached, deferred,
                   operations, missing, isolation, isolationLevel, operationIndex, results,
                   inflight, submitted, commits, rollbacks, failedOperation, cause>>

CommitDone(i) == CommitTransaction(i, FALSE)
CommitError(i) == CommitTransaction(i, TRUE)

\* executeNext when the driver invokes the statement callback with a result
\* before transaction.query returns, `depth` times in a row: each callback
\* pushes its result and calls executeNext, which finds operationIndex not
\* yet advanced and hands the same operation over again; the last one is
\* answered later.  Every executeNext on the stack then advances the index
\* as it returns.
ExecuteNextReentrant(t, depth) ==
    [t EXCEPT !.inflight = @ \cup {t.operationIndex + 1},
              !.submitted = @ \o [n \in 1..(depth + 1) |-> t.operationIndex + 1],
              !.operationIndex = @ + depth + 1]

\* The driver calls back with a result, for db.transaction (k = 0) or for
\* operation k, and answers the operation executeNext then starts
\* synchronously.
SynchronousCallbacks(i, k, depth) ==
    /\ IF k = 0 THEN pc[i] = "beginning" ELSE k \in inflight[i] /\ pc[i] = "executing"
    /\ LET t == IF k = 0 THEN Sequencer(i)
                ELSE [Sequencer(i) EXCEPT !.inflight = @ \ {k}]
           started == t.operationIndex + 1
           pushed == IF k = 0 THEN results[i] ELSE Push(results[i], DriverResult(i, k))
       IN /\ t.operationIndex < t.length
          /\ started \notin t.missing
          /\ Sequenced(i, ExecuteNextReentrant(t, depth))
          /\ results' = [results EXCEPT
                           ![i] = pushed \o [n \in 1..depth |-> DriverResult(i, started)]]
          /\ uncommitted' = [uncommitted EXCEPT
                               ![i] = @ \cup ({k} \ {0}) \cup {started}]
    /\ UNCHANGED <<serviceVars, managerVars, poolVars, kind, db, finished, timeoutId,
                   detached, deferred, outcome, settles, operations, missing, isolation,
                   isolationLevel, reported, rollbacks, failedOperation, cause, returned,
                   store>>

BeginDoneSynchronous(i, depth) == SynchronousCallbacks(i, 0, depth)
OperationDoneSynchronous(i, k, depth) ==
    k >= 1 /\ SynchronousCallbacks(i, k, depth)

\* the steps of the driver once a transaction call has its connection
TransactionNext ==
    \/ \E i \in Calls : BeginDone(i)
    \/ \E i \in Calls : BeginError(i)
    \/ \E i \in Calls, k \in 1..MaxOperations : OperationDone(i, k)
    \/ \E i \in Calls, k \in 1..MaxOperations : OperationError(i, k)
    \/ \E i \in Calls : RollbackDone(i)
    \/ \E i \in Calls : CommitDone(i)
    \/ \E i \in Calls : CommitError(i)

Next ==
    \/ \E i \in Calls : ExecuteQuery(i)
    \/ \E i \in Calls : ExecuteCommand(i)
    \/ \E i \in Calls : ExecuteTransaction(i)
    \/ PoolGet
    \/ PoolGetError
    \/ \E i \in Calls : Timeout(i)
    \/ \E i \in Calls : StatementDone(i)
    \/ \E i \in Calls : StatementError(i)
    \/ TransactionNext

Spec == Init /\ [][Next]_vars

\* The same program with the event loop's guarantees: a queued pool.get is
\* served when the pool has room, and the driver eventually calls back for
\* every request it was given.  Nothing makes a timer fire or a client call.
Fairness ==
    /\ WF_vars(PoolGet \/ PoolGetError)
    /\ \A i \in Calls : WF_vars(StatementDone(i) \/ StatementError(i))
    /\ \A i \in Calls : WF_vars(BeginDone(i) \/ BeginError(i))
    /\ \A i \in Calls, k \in 1..MaxOperations :
           WF_vars(OperationDone(i, k) \/ OperationError(i, k))
    /\ \A i \in Calls : WF_vars(RollbackDone(i))
    /\ \A i \in Calls : WF_vars(CommitDone(i) \/ CommitError(i))

FairSpec == Spec /\ Fairness

\* destroy(): the pool closes its free connections; connections that are
\* out and gets that are queued stay with the driver.
Destroy ==
    /\ pool # "null"
    /\ pooldb' = <<>>
    /\ pool' = "null"
    /\ isConnected' = FALSE
    /\ UNCHANGED <<serviceVars, dbinuse, pending, attached, callVars, txVars, dbVars>>

\* The manager from construction (which may fail) to destroy().
LifecycleInit == (\E ok \in BOOLEAN : Constructed(ok)) /\ ServicesInit

LifecycleNext ==
    \/ Next
    \/ Destroy

LifecycleSpec == LifecycleInit /\ [][LifecycleNext]_vars

\* The connection manager called with any operations list, under the event
\* loop's guarantees.
SparseNext ==
    \/ Next
    \/ \E i \in Calls : ExecuteTransactionSparse(i)

FairSparseSpec == Init /\ [][SparseNext]_vars /\ Fairness

\* The connection manager over a driver that may also invoke statement
\* callbacks synchronously.
SynchronousNext ==
    \/ Next
    \/ \E i \in Calls, depth \in 1..MaxSyncCallbacks : BeginDoneSynchronous(i, depth)
    \/ \E i \in Calls, k \in 1..MaxOperations, depth \in 1..MaxSyncCallbacks :
           OperationDoneSynchronous(i, k, depth)

SynchronousSpec == Init /\ [][SynchronousNext]_vars

\* validateSqlQuery applied to one string.
GuardSpecInit ==
    Constructed(TRUE) /\ JobsInit /\ GuardInit /\ RawIdle /\ PageIdle /\ CrudInit /\ ByIdIdle /\ UpdateIdle /\ ChainIdle
GuardSpec == GuardSpecInit /\ [][GuardNext]_vars

\* CrudService calls on one table, one after the other.
CrudSpec == Init /\ [][CrudNext]_vars

\* PUT and DELETE by id, concurrently, on some table.
ByIdSpecInit ==
    Constructed(TRUE) /\ JobsInit /\ GuardIdle /\ RawIdle /\ PageIdle /\ CrudInit
        /\ ByIdInit /\ UpdateIdle /\ ChainIdle
ByIdSpec == ByIdSpecInit /\ [][ByIdNext]_vars

\* The update builders applied to one data mapping and parameter list.
UpdateSpecInit ==
    Constructed(TRUE) /\ JobsInit /\ GuardIdle /\ RawIdle /\ PageIdle /\ CrudInit
        /\ ByIdIdle /\ UpdateInit /\ ChainIdle
UpdateSpec == UpdateSpecInit /\ [][UpdateNext]_vars

\* The pagination functions applied to one page, limit and offset.
PageSpecInit ==
    Constructed(TRUE) /\ JobsInit /\ GuardIdle /\ RawIdle /\ PageInit /\ CrudInit /\ ByIdIdle /\ UpdateIdle /\ ChainIdle
PageSpec == PageSpecInit /\ [][PageNext]_vars

\* The routes that take SQL from the request body.
RawSpec == Init /\ [][RawNext]_vars

\* The async-query route and the job routes.
JobSpec == Init /\ [][JobNext]_vars

\* The async-query route behind the application's middleware.
AppSpec == Init /\ [][AppNext]_vars

\* Requests to POST /api/transaction/execute only.
RouteNext ==
    \/ \E i \in Calls : PostTransactionExecute(i)
    \/ PoolGet
    \/ PoolGetError
    \/ TransactionNext

RouteSpec == Init /\ [][RouteNext]_vars

\* ---- properties ----

IsStatement(i) == kind[i] \in {"query", "command"}
IsTransaction(i) == kind[i] = "transaction"
\* the call was handed a connection and has not called detach on it
Borrowed == {i \in Calls : db[i] # 0 /\ detached[i] = 0}
\* the statement of a timed-out call is still in flight
InFlightAfterTimeout(i) == pc[i] = "abandoned"

\* C1: every executeTransaction call that acquired a connection has
\* released it once its commit or rollback has completed, so finished
\* transactions leave no connection borrowed.
C1_TransactionReleasesConnection ==
    \A i \in Calls :
        (IsTransaction(i) /\ db[i] # 0 /\ pc[i] = "closed")
            => (detached[i] = 1 /\ i \notin Borrowed)

\* C2: an executeQuery or executeCommand call that obtained a connection
\* detaches it exactly once on every exit path: never twice, once by the
\* time the call has settled, and still once after a late driver callback;
\* the pool's count of connections in use is the number of calls that
\* still have theirs.
C2_DetachedExactlyOnce ==
    /\ \A i \in Calls :
        IsStatement(i) =>
            /\ detached[i] <= 1
            /\ (db[i] # 0 /\ outcome[i] # "none") => detached[i] = 1
            /\ (db[i] # 0 /\ pc[i] = "closed") => detached[i] = 1
            /\ detached[i] = 1 => (db[i] # 0 /\ outcome[i] # "none")
    /\ dbinuse = Cardinality({i \in Calls : db[i] # 0 /\ (detached[i] = 0 \/ deferred[i])})

\* C2 witness: a call timed out, its driver callback came later, and it has
\* detached once; another call ended through its callback.
C2_Witness ==
    \E i, j \in Calls :
        /\ IsStatement(i) /\ outcome[i] = "timeout" /\ pc[i] = "closed" /\ detached[i] = 1
        /\ IsStatement(j) /\ outcome[j] \in {"resolved", "failed"} /\ detached[j] = 1

\* C3: the connection of a timed-out query or command is dropped: it is
\* not in the pool's free list and, while its statement is in flight, no
\* other call has it.
C3_TimedOutConnectionDropped ==
    \A i \in Calls :
        outcome[i] = "timeout" =>
            /\ db[i] \notin Range(pooldb)
            /\ InFlightAfterTimeout(i) =>
                   \A j \in Calls \ {i} : db[j] # db[i]

\* C4: when a statement of a transaction has failed, no effect of that
\* transaction is ever visible in the store, and the call fails.
C4_RollbackAtomicity ==
    \A i \in Calls :
        failedOperation[i] # 0 =>
            /\ \A k \in 1..MaxOperations : <<i, k>> \notin store
            /\ outcome[i] # "none" => outcome[i] = "operation_failed"

\* C4 witness: [A valid, B invalid]: A's result was observed, B failed,
\* the call has failed.
C4_Witness ==
    \E i \in Calls :
        /\ operations[i] = 2 /\ Len(results[i]) = 1 /\ failedOperation[i] = 2
        /\ outcome[i] = "operation_failed"

\* C5: the operations of a transaction are submitted in array order, one
\* at a time: the only operation that can be in flight is the last one
\* submitted, and every one before it has had its callback observed.
C5_OperationsSequential ==
    \A i \in Calls :
        /\ \A k \in 1..Len(submitted[i]) : submitted[i][k] = k
        /\ Cardinality(inflight[i]) <= 1
        /\ inflight[i] \subseteq {Len(submitted[i])}
        /\ Len(submitted[i]) <= operations[i]
        /\ Len(submitted[i]) =
             Len(results[i]) + Cardinality(inflight[i])
               + (IF failedOperation[i] # 0 THEN 1 ELSE 0)

\* C5 witness: the second operation is in flight after the first one's
\* result was pushed.
C5_Witness ==
    \E i \in Calls :
        submitted[i] = <<1, 2>> /\ inflight[i] = {2} /\ Len(results[i]) = 1

\* C6: on the first statement failure rollback is issued (once), the call
\* fails with an error wrapping that statement's error, no later operation
\* is submitted, commit is never issued and nothing is returned.
C6_FirstFailureRollsBack ==
    \A i \in Calls :
        failedOperation[i] # 0 =>
            /\ rollbacks[i] = 1
            /\ commits[i] = 0
            /\ cause[i] = failedOperation[i]
            /\ Len(submitted[i]) = failedOperation[i]
            /\ inflight[i] = {}
            /\ outcome[i] \in {"none", "operation_failed"}
            /\ pc[i] = "closed" => outcome[i] = "operation_failed"
            /\ returned[i] = <<>> /\ reported[i] = "none"

\* C6 witness: the first of two operations failed and the call has failed.
C6_Witness ==
    \E i \in Calls :
        /\ operations[i] = 2 /\ failedOperation[i] = 1 /\ pc[i] = "closed"
        /\ outcome[i] = "operation_failed"

\* C7: a transaction whose N statements all succeed commits exactly once,
\* after the N-th result, and what it returns is the N driver results in
\* input order.
C7_CommitReturnsAllResults ==
    \A i \in Calls :
        /\ commits[i] <= 1
        /\ commits[i] = 1 =>
              /\ Len(results[i]) = operations[i]
              /\ inflight[i] = {} /\ failedOperation[i] = 0
        /\ (IsTransaction(i) /\ pc[i] \in {"committing", "closed"}
              /\ failedOperation[i] = 0 /\ outcome[i] \notin {"acquire_failed", "begin_failed"})
             => commits[i] = 1
        /\ (IsTransaction(i) /\ outcome[i] = "resolved") =>
              /\ commits[i] = 1
              /\ Len(returned[i]) = operations[i]
              /\ \A k \in 1..operations[i] : returned[i][k] = DriverResult(i, k)
        /\ (IsTransaction(i) /\ pc[i] = "closed" /\ commits[i] = 1)
             => outcome[i] \in {"resolved", "commit_failed"}

\* C7 witness: a transaction of two statements has resolved.
C7_Witness ==
    \E i \in Calls :
        IsTransaction(i) /\ operations[i] = 2 /\ outcome[i] = "resolved"
          /\ Len(returned[i]) = 2

\* C8: a transaction is started at the isolation level the request asked
\* for, and the response reports the level it was started at.
C8_StartedAtRequestedIsolation ==
    \A i \in Calls :
        /\ (isolationLevel[i] # "none" /\ isolation[i] \in Isolations)
              => isolationLevel[i] = isolation[i]
        /\ reported[i] # "none" => reported[i] = isolationLevel[i]

\* C9: the number of outstanding borrowed connections never exceeds the
\* configured maximum.
C9_BorrowedAtMostMax ==
    /\ Cardinality(Borrowed) <= PoolMax
    /\ dbinuse <= PoolMax

\* C9 witness: the maximum is borrowed while another acquisition is queued.
C9_Witness ==
    /\ Cardinality(Borrowed) = PoolMax
    /\ pending # <<>>

\* C10: an acquisition suspended because max connections are borrowed is
\* eventually served.
C10_SuspendedEventuallyServed ==
    \A i \in Calls : (pc[i] = "waiting") ~> (pc[i] # "waiting")

\* C11: once the pool is destroyed, or when its initialisation failed, it
\* stays that way, and every getConnection made from then on rejects at
\* once: the call is not queued at the pool and never has a connection.
C11_DestroyIsIrreversible ==
    [][/\ (pool = "null" \/ ~isConnected) =>
            /\ pool' = "null" \/ ~isConnected'
            /\ \A i \in Calls :
                 (pc[i] = "idle" /\ pc'[i] # "idle") =>
                     /\ pc'[i] = "closed" /\ outcome'[i] = "pool_unavailable"
                     /\ db'[i] = 0 /\ pending' = pending
       /\ \A i \in Calls : outcome[i] = "pool_unavailable" =>
                                (db'[i] = 0 /\ pc'[i] = "closed")]_vars

\* C11 witness: a call was served before destroy() and a later one was
\* rejected after it.
C11_Witness ==
    /\ pool = "null"
    /\ \E i, j \in Calls : db[i] # 0 /\ outcome[j] = "pool_unavailable"

\* the submission whose job the record of id is: the last one that called
\* createJob for it
IsCurrent(s) == taskId[s] \in JobIds /\ created[taskId[s]] = s

\* C12: the job of a submission reads processing from the acknowledgement
\* until its background query finishes and done or error afterwards; an id
\* never reads done or error without having been created.
C12_ProcessingUntilFinished ==
    /\ \A s \in Submissions :
         IsCurrent(s) =>
            /\ task[s] = "running" => GetJob(jobs, taskId[s]).status = "processing"
            /\ task[s] = "finished" => GetJob(jobs, taskId[s]).status \in Terminal
    /\ \A id \in JobIds :
         GetJob(jobs, id).status \in Terminal => created[id] # 0

\* C13: a job that is done or error keeps that status and payload: what
\* getJob returns for its id changes again only when createJob starts a
\* new job under that id.
C13_TerminalStateIsFinal ==
    [][\A id \in JobIds :
          (GetJob(jobs, id).status \in Terminal /\ created'[id] = created[id])
            => GetJob(jobs', id) = GetJob(jobs, id)]_vars

\* C14 as claimed: a submission whose id already has a job is refused and
\* the job record stays as it was.
C14_DuplicateJobRejected ==
    [][\A s \in Submissions, id \in JobIds :
          (task[s] = "idle" /\ task'[s] # "idle" /\ taskId'[s] = id
             /\ jobs[id].status # "undefined")
            => (jobs'[id] = jobs[id] /\ task'[s] = "rejected")]_vars

\* C14 as amended: createJob on an id that already has a job does not
\* fail; it replaces the record by {status: processing} and the
\* submission is acknowledged and started like any other.
C14_DuplicateJobOverwritten ==
    [][\A s \in Submissions, id \in JobIds :
          (task[s] = "idle" /\ task'[s] # "idle" /\ taskId'[s] = id)
            => (jobs'[id] = [status |-> "processing", payload |-> <<>>]
                  /\ task'[s] = "running")]_vars

\* C14 witness: an id whose job had finished was submitted again.
C14_Witness ==
    \E s, r \in Submissions :
        /\ s < r /\ taskId[s] = taskId[r] /\ taskId[s] \in JobIds
        /\ task[s] = "finished" /\ task[r] = "running"
        /\ jobs[taskId[r]].status = "processing"

\* C16: validateSqlQuery fails for "SELECT 1; DROP TABLE X" and for every
\* string containing -- or /*, and succeeds for "SELECT * FROM X WHERE Y = ?".
C16_GuardVerdicts ==
    verdict # "none" =>
        /\ sql = SelectThenDrop => verdict # "accepted"
        /\ (Adjacent(sql, "-", "-") \/ Adjacent(sql, "/", "*")) => verdict # "accepted"
        /\ sql = SelectStar => verdict = "accepted"

\* the parts of C16 the code does satisfy
GuardCommentsAndSelectStar ==
    verdict # "none" =>
        /\ (Adjacent(sql, "-", "-") \/ Adjacent(sql, "/", "*")) => verdict # "accepted"
        /\ sql = SelectStar => verdict = "accepted"

\* C15: a SQL string of a request body reaches executeQuery, executeCommand
\* or executeTransaction only after validateSqlQuery accepted it, on every
\* raw-SQL route; a transaction executes nothing unless every operation
\* was accepted.
C15_ValidatedBeforeExecuted ==
    /\ \A k \in 1..Len(reached) : ValidateSqlQuery(reached[k]) = "accepted"
    /\ reached # <<>> => \A k \in 1..Len(body) : ValidateSqlQuery(body[k]) = "accepted"

\* the routes of C15 that do validate first
GuardedRoutesValidate ==
    route # "async-query" =>
        /\ \A k \in 1..Len(reached) : ValidateSqlQuery(reached[k]) = "accepted"
        /\ reached # <<>> => \A k \in 1..Len(body) : ValidateSqlQuery(body[k]) = "accepted"

\* C17: with limit in 1..1000, page >= 1 and no offset given, select,
\* createPagination and the query/execute route build ROWS offset+1 TO
\* offset+limit with offset = (page-1)*limit, which selects exactly the
\* rows offset+1 .. offset+limit.
InWindowRange ==
    /\ pagination.offset = <<>>
    /\ pagination.limit # <<>> /\ pagination.limit[1] \in 1..LimitCap
    /\ pagination.page # <<>> /\ pagination.page[1] >= 1
C17_WindowFromPage ==
    (appliedBy \in {"select", "createPagination", "query/execute"} /\ InWindowRange) =>
        LET limit == pagination.limit[1]
            offset == (pagination.page[1] - 1) * limit
        IN /\ window = <<"ROWS", offset + 1, "TO", offset + limit>>
           /\ Selected(window) = (offset + 1)..(offset + limit)
C17_Witness ==
    /\ appliedBy = "createPagination" /\ InWindowRange
    /\ pagination.page[1] = 2 /\ pagination.limit[1] = LimitCap

\* C18: whatever page, limit and offset are (absent, zero, negative or
\* positive), normalizePagination returns limit in 1..1000 (100 when
\* absent), page >= 1 (1 when absent) and offset >= 0 (equal to
\* (page-1)*limit when only page is given).
C18_NormalizedIsValid ==
    appliedBy = "normalizePagination" =>
        /\ normalized.limit \in 1..LimitCap
        /\ pagination.limit = <<>> => normalized.limit = DefaultLimit
        /\ normalized.page >= 1
        /\ pagination.page = <<>> => normalized.page = 1
        /\ normalized.offset >= 0
        /\ (pagination.offset = <<>> /\ pagination.limit = <<>> /\ pagination.page # <<>>)
              => normalized.offset = (normalized.page - 1) * normalized.limit

\* what normalizePagination does guarantee: the cap, the page and the defaults
NormalizedCapAndPage ==
    appliedBy = "normalizePagination" =>
        /\ normalized.limit <= LimitCap
        /\ pagination.limit = <<>> => normalized.limit = DefaultLimit
        /\ normalized.page >= 1
        /\ pagination.page = <<>> => normalized.page = 1
        /\ (pagination.offset = <<>> /\ pagination.page # <<>>)
              => normalized.offset = (normalized.page - 1) * normalized.limit
        /\ (pagination.limit = <<>> \/ pagination.limit[1] >= 0)
              /\ (pagination.offset = <<>> \/ pagination.offset[1] >= 0)
              => normalized.limit >= 1 /\ normalized.offset >= 0

\* C19: insert followed by selectById with the id insertAndReturnId
\* returned yields the inserted record: the returned id is the generated
\* key of the row just inserted, and the selected record has the inserted
\* fields.
C19_InsertSelectRoundTrip ==
    (prev.op = "insertAndReturnId" /\ last.op = "selectById" /\ last.id = prev.returned) =>
        /\ prev.returned = prev.id
        /\ last.rows = {[id |-> prev.id[1], name |-> prev.name]}

\* the row itself is stored and can be selected by its key
InsertedRowSelectable ==
    (prev.op = "insertAndReturnId" /\ last.op = "selectById" /\ last.id = prev.id) =>
        last.rows = {[id |-> prev.id[1], name |-> prev.name]}

\* C20: exists on a row's id returns true right after that row is inserted
\* and false right after deleteById of that row when it existed, whatever
\* inserts and deletes came before.
C20_ExistsFollowsInsertAndDelete ==
    (last.op = "exists" /\ last.id = prev.id) =>
        /\ prev.op = "insertAndReturnId" => last.hit
        /\ (prev.op = "deleteById" /\ prev.hit) => ~last.hit
C20_Witness ==
    /\ last.op = "exists" /\ last.id = prev.id /\ ~last.hit
    /\ prev.op = "deleteById" /\ prev.hit
    /\ table # {}

\* C21: for an existing record a successful PUT and a successful DELETE
\* report affectedRows > 0: when the statement changed or removed a row,
\* affectedRows is at least 1.
C21_AffectedRowsReported ==
    \A r \in Requests :
        (req[r].status = "200" /\ req[r].touched # {}) => req[r].affectedRows >= 1

\* C27: PUT and DELETE by id answer 404 and issue no UPDATE or DELETE when
\* no record has the id, and answer 404 without any statement against the
\* table when the table is not in the table list.
C27_MissingAnswers404 ==
    \A r \in Requests :
        req[r].pc = "done" =>
            /\ ~listed => (req[r].status = "404" /\ ~req[r].issued /\ req[r].queries = 0)
            /\ (listed /\ req[r].absent) => (req[r].status = "404" /\ ~req[r].issued)

\* C27 for a table that has a primary key
MissingAnswers404WithKey ==
    primaryKey # "" =>
        \A r \in Requests :
            req[r].pc = "done" =>
                /\ ~listed => (req[r].status = "404" /\ ~req[r].issued /\ req[r].queries = 0)
                /\ (listed /\ req[r].absent) => (req[r].status = "404" /\ ~req[r].issued)

\* C28: with concurrent requests a PUT or DELETE by id answers success only
\* if it changed or removed a record, also when another request deleted
\* the record between its existence check and its statement.
C28_SuccessMeansChanged ==
    \A r \in Requests :
        (req[r].status = "200" /\ req[r].checkedColumn = req[r].statementColumn)
            => req[r].touched # {}

\* C29: the by-id routes use the same id column for the existence check and
\* for the statement that follows, whatever the table's primary key is.
C29_SameIdColumn ==
    \A r \in Requests :
        req[r].issued =>
            /\ req[r].checkedColumn = req[r].statementColumn
            /\ req[r].touched \subseteq req[r].tested

\* PUT does use the same column for both
PutSameIdColumn ==
    \A r \in Requests :
        (req[r].issued /\ req[r].method = "PUT") =>
            req[r].checkedColumn = req[r].statementColumn

\* C22: update binds the values of data in key order followed by the extra
\* parameters: the SET clause has one placeholder per key, the j-th
\* placeholder is assigned to the j-th key and bound to that key's value,
\* and the parameters after the k-th are extraParams in order.
Placeholders(clause) == {i \in 1..Len(clause) : clause[i] = "?"}
\* the position of the j-th placeholder in the clause
Placeholder(clause, j) ==
    CHOOSE i \in Placeholders(clause) :
        Cardinality({h \in Placeholders(clause) : h <= i}) = j
C22_ParametersInKeyOrder ==
    builtBy # "none" =>
        LET k == Len(data)
        IN /\ Cardinality(Placeholders(statement.set)) = k
           /\ Len(statement.params) = k + Len(extraParams)
           /\ \A j \in 1..k :
                 /\ statement.set[Placeholder(statement.set, j) - 2] = data[j][1]
                 /\ statement.params[j] = data[j][2]
           /\ \A j \in 1..Len(extraParams) : statement.params[k + j] = extraParams[j]
C22_Witness ==
    /\ builtBy = "update" /\ Len(data) = MaxKeys /\ Len(extraParams) = MaxExtraParams
    /\ data[1][2] # data[2][2] /\ extraParams[1] # extraParams[2]

\* C23: the core never retries: within one call each statement is handed to
\* the driver at most once and a connection is asked for once, and once the
\* call has settled (timeout, statement error, acquisition failure or
\* success) nothing is submitted or acquired for it again.
NoDuplicates(seq) == \A a, b \in 1..Len(seq) : seq[a] = seq[b] => a = b
Settled(i) == outcome[i] # "none"
C23_NeverRetries ==
    [][\A i \in Calls :
          /\ NoDuplicates(submitted'[i])
          /\ (i \in Range(pending') /\ i \notin Range(pending)) => pc[i] = "idle"
          /\ pc[i] # "idle" => pc'[i] # "idle"
          /\ (pc'[i] = "waiting") => pc[i] \in {"idle", "waiting"}
          /\ (pc'[i] \in {"running", "beginning"} /\ pc'[i] # pc[i]) => pc[i] = "waiting"
          /\ Settled(i) =>
                /\ outcome'[i] = outcome[i]
                /\ submitted'[i] = submitted[i]
                /\ db'[i] = db[i]
                /\ i \notin Range(pending')
                /\ pc'[i] \notin {"waiting", "running", "beginning", "executing"}]_vars
\* a timed-out statement whose late callback has come and a transaction
\* whose only submitted operation failed, each surfaced once
C23_Witness ==
    \E i, j \in Calls :
        /\ i # j
        /\ outcome[i] = "timeout" /\ pc[i] = "closed"
        /\ outcome[j] = "operation_failed" /\ Len(submitted[j]) = 1

\* C24: the timeout race of executeQuery and executeCommand has one winner:
\* the promise is settled once; when the timer fires first the call fails
\* with the timed-out error and the later driver callback changes nothing;
\* when the callback fires first the timer is cleared and the call never
\* gets a timed-out error.
C24_OneWinner ==
    [][\A i \in Calls :
          IsStatement(i) =>
              /\ settles'[i] <= 1
              /\ (pc[i] = "running" /\ pc'[i] = "abandoned") => outcome'[i] = "timeout"
              /\ (pc[i] = "running" /\ pc'[i] = "closed") =>
                     (outcome'[i] \in {"resolved", "failed"} /\ ~timeoutId'[i])
              /\ outcome[i] = "timeout" =>
                     /\ outcome'[i] = "timeout" /\ settles'[i] = settles[i]
                     /\ finished'[i] /\ detached'[i] = detached[i]
              /\ outcome[i] \in {"resolved", "failed"} =>
                     (outcome'[i] = outcome[i] /\ ~timeoutId'[i])]_vars
\* the timer won and the driver's callback came afterwards
C24_Witness ==
    \E i \in Calls :
        /\ IsStatement(i) /\ outcome[i] = "timeout" /\ pc[i] = "closed"
        /\ settles[i] = 1 /\ finished[i]

\* C25: executeTransactionOperations hands every operation of the list to
\* the driver exactly once, whether the driver invokes the statement
\* callback asynchronously or inside transaction.query.
C25_EveryOperationOnce ==
    \A i \in Calls :
        IsTransaction(i) =>
            /\ NoDuplicates(submitted[i])
            /\ commits[i] > 0 => Range(submitted[i]) = 1..operations[i]

\* C26: every executeTransaction call that got its connection eventually
\* settles, whatever its operations list (empty, or with a missing entry)
\* and whatever begin, the statements, commit and rollback answer; it
\* settles once, resolved after a commit or rejected, and a rejected call
\* leaves no transaction that is neither committed nor rolled back.
Rejected(i) == outcome[i] \notin {"none", "resolved"}
\* the transaction of call i was started and has been neither committed
\* nor rolled back
LeftOpen(i) ==
    /\ pc[i] = "closed" /\ outcome[i] # "begin_failed"
    /\ isolationLevel[i] # "none"
    /\ outcome[i] # "resolved" /\ rollbacks[i] = 0
TransactionSettles ==
    \A i \in Calls : (IsTransaction(i) /\ pc[i] = "beginning") ~> Settled(i)
RejectedLeavesNothingOpen ==
    \A i \in Calls :
        IsTransaction(i) =>
            /\ settles[i] <= 1
            /\ outcome[i] = "resolved" => commits[i] = 1
            /\ Rejected(i) => ~LeftOpen(i)
C26_TransactionAlwaysSettles == TransactionSettles /\ []RejectedLeavesNothingOpen

\* C30: inside the application a POST /api/async-query without the
\* X-Request-ID header is answered 400, creates no job and starts no
\* background query.
C30_MissingHeaderRejected ==
    \A s \in Submissions :
        sent[s] = "" =>
            /\ task[s] = "rejected"
            /\ \A id \in AllJobIds : created[id] # s

\* a request that carries the header is handled under that id
SentHeaderIsJobId ==
    \A s \in Submissions :
        sent[s] \in JobIds => (taskId[s] = sent[s] /\ task[s] # "rejected")

====
